---- MODULE Spec2Model ----
(***************************************************************************)
(* Model of FernhillDBTransferTool.py: the synchronization run             *)
(* (table_transfer, hist_data_index, hist_data) against a source store     *)
(* (Fernhill, read through pyodbc) and a destination store (PostgreSQL,    *)
(* written through SQLAlchemy/pandas), and the trigger loop of main()      *)
(* that starts runs in background threads.                                 *)
(*                                                                         *)
(* SpecRun  : one thread executing table_transfer, statement by statement, *)
(*            every database call either succeeding or raising.            *)
(* SpecMain : the event loop of main() (window loop and tray loop), the    *)
(*            clock, the user and the background threads it starts.        *)
(***************************************************************************)
EXTENDS Integers, Sequences, FiniteSets, TLC

(* ------------------------------ bounds -------------------------------- *)
\* rows a source table may hold
MaxRows == 2
\* threads started by main() whose completion it has not read yet
MaxThreads == 2
\* scheduled runs counted in one window
MaxSchedStarts == 2
\* days the clock runs after the first
MaxDays == 1
\* consecutive runs of table_transfer in SpecRun
MaxRuns == 2
\* times the source index is edited by the plant while the tool runs
MaxSrcChanges == 1
\* largest argument of convert_time in SpecTime (ten hours and a bit)
MaxSeconds == 36061

(* ------------------------------ names --------------------------------- *)
\* table names as the source index spells them (TableName column)
IndexNames == {"tempA", "tempB"}

\* the two tables the program itself writes in the destination
IndexTable == "historicdataindex"

StagingTable == "temptable"

\* names in the destination catalog (information_schema.tables); PostgreSQL
\* folds the unquoted identifiers the program issues to lower case
DestNames == {"tempa", "tempb", "tempc", StagingTable, IndexTable}

\* str.lower() on the names of the model
lower(n) ==
    CASE n = "tempA" -> "tempa"
      [] n = "tempB" -> "tempb"
      [] OTHER -> n

NoTable == [absent |-> TRUE]

\* a table that a previous sync or somebody else left in the destination
OldTable == [cols |-> <<"x">>, rows |-> << <<"stale">> >>]

\* the mirrored index as a previous run left it (an entry that is gone)
OldIndexTable == [cols |-> <<"TableName", "Units">>,
                  rows |-> << <<"tempc", "u">> >>]

\* sequences without repetition over S
RECURSIVE DistinctSeqs(_)
DistinctSeqs(S) ==
    IF S = {} THEN { <<>> }
    ELSE { <<>> } \cup
         UNION { { <<x>> \o s : s \in DistinctSeqs(S \ {x}) } : x \in S }

IndexSeqs == DistinctSeqs(IndexNames)

\* row i of source table t, columns (x, y)
SourceRow(t, i) == <<t, i>>

\* SELECT * FROM t on the source: n rows in the order the source returns them
SourceFrame(t, n) == [cols |-> <<"x", "y">>,
                      rows |-> [i \in 1..n |-> SourceRow(t, i)]]

\* SELECT SourceName, TableName, ... FROM HistoricDataIndex on the source
IndexFrame(idx) == [cols |-> <<"TableName", "Units">>,
                    rows |-> [i \in 1..Len(idx) |-> <<idx[i], "u">>]]

\* ALTER TABLE ... ADD COLUMN entryid SERIAL PRIMARY KEY: the existing rows
\* are numbered 1..n
AddSerial(tbl) == [cols |-> Append(tbl.cols, "entryid"),
                   rows |-> [i \in 1..Len(tbl.rows) |-> Append(tbl.rows[i], i)]]

Range(s) == { s[i] : i \in 1..Len(s) }

(* ------------------------------ state --------------------------------- *)
VARIABLES
    \* source store
    srcIndex,        \* HistoricDataIndex.TableName, in source order
    srcRows,         \* number of rows of each source table
    srcChanges,      \* edits of the source index so far
    \* destination store
    dest,            \* catalog: name -> table or NoTable
    \* the thread running table_transfer
    pc,              \* position in table_transfer
    runs,            \* runs started so far
    dbcnxn,          \* "none" | "open" | "closed"  (line 136/141)
    fern_conn,       \* "none" | "open" | "closed"  (line 144/153)
    old_historics,   \* destination names still to visit in the drop loop
    df_index,        \* df_fern of hist_data_index: the index as fetched
    total_historics, \* lower-cased TableName list of hist_data_index
    hist_table,      \* hist_table of hist_data: the names its loop walks
    row,             \* loop variable of hist_data
    df_fern,         \* df_fern of hist_data: the frame just fetched
    timer,           \* "unset" | "running" | "stopped"  (line 148/150)
    result,          \* how the run ended
    \* observation of the run (what the log and the database would show)
    dest0,           \* destination catalog when the run started
    ops,             \* destination statements executed by the run, in order
    visited,         \* names whose loop iteration of hist_data began
    synced,          \* names whose iteration reached the end of the try block
    skipped,         \* names whose iteration ended in the except clause
    fetched,         \* name -> rows the source returned for it in this run
    raised,          \* <<site, table>> of every exception raised in the run
    \* observation of the run before this one
    prevDest,        \* destination catalog when the previous run ended
    prevResult,      \* the previous run: "none" | "ok" | "failed"
    prevSkipped,     \* names the previous run skipped, if it returned
    \* convert_time
    sec,             \* the argument of convert_time
    time_taken,      \* what convert_time returned, <<>> before the call
    \* main(): the trigger loop
    updating,        \* the run-in-progress flag of main()
    in_tray,         \* main() is in its tray loop
    autoupdate,      \* values["-AU1-"]: the 'Automatically Update?' radio
    event,           \* the event the last window.read() returned
    loop,            \* "window" | "tray" | "exited" | "crashed"
    clock,           \* datetime.now().time(), in seconds since midnight
    right_now,       \* right_now of main(), -1 while unbound (line 324/360)
    day,             \* days elapsed
    active,          \* threads inside table_transfer
    queued,          \* '-UPDATE COMPLETE-' events written, not yet read
    schedStarts      \* scheduled runs started in the current window

runVars == <<pc, runs, dbcnxn, fern_conn, old_historics, df_index,
             total_historics, hist_table, row, df_fern, timer, result,
             dest0, ops, visited, synced, skipped, fetched, raised>>

storeVars == <<srcIndex, srcRows, srcChanges, dest>>

mainVars == <<updating, in_tray, autoupdate, event, loop, clock, right_now,
              day, active, queued, schedStarts>>

prevVars == <<prevDest, prevResult, prevSkipped>>

timeVars == <<sec, time_taken>>

vars == <<storeVars, runVars, mainVars, prevVars, timeVars>>


(* --------------------- destination store operations ------------------- *)
\* SELECT table_name FROM information_schema.tables WHERE table_schema='public'
ListTableNames(d) == { n \in DOMAIN d : d[n] # NoTable }

\* variant: if_exists='append', the rows are added to the table that is there
to_sql_Append(d, name, frame) ==
    IF d[name] = NoTable THEN [d EXCEPT ![name] = frame]
    ELSE [d EXCEPT ![name] = [cols |-> @.cols, rows |-> @.rows \o frame.rows]]

\* DataFrame.to_sql(name, if_exists='replace'): drop, create from the frame's
\* columns, insert all rows
to_sql(d, name, frame) == [d EXCEPT ![name] = frame]

\* what a to_sql that raises can leave behind: nothing done, table dropped,
\* table recreated but not filled
to_sql_failed(d, name, frame) ==
    { d, [d EXCEPT ![name] = NoTable],
         [d EXCEPT ![name] = [cols |-> frame.cols, rows |-> <<>>]] }

\* DROP TABLE name
DropTable(d, name) == [d EXCEPT ![name] = NoTable]

\* a call raises at `site` (for table `name`, "-" if none)
Throw(site, name) == raised' = raised \cup {<<site, name>>}

\* an exception leaves table_transfer: the thread ends where it is
Raise(site, name, kind) ==
    /\ Throw(site, name)
    /\ pc' = "done"
    /\ result' = kind

(* ---------------------------- environment ----------------------------- *)
\* the plant adds or removes historic tables: the source index changes. The
\* tool sees the index only when it reads it (line 59, line 86), so a change
\* is taken at the moment before one of the two reads
SourceIndexChanges(idx) ==
    /\ pc \in {"hdi_fetch", "hd_names"}
    /\ srcChanges < MaxSrcChanges
    /\ idx # srcIndex
    /\ srcIndex' = idx
    /\ srcChanges' = srcChanges + 1
    /\ UNCHANGED <<srcRows, dest, runVars, mainVars, prevVars, timeVars>>

(* --------------------------- table_transfer --------------------------- *)
\* lines 123-134: a thread enters table_transfer, reads the configuration
\* and builds the (lazy) engine
StartRun ==
    /\ pc \in {"idle", "done"}
    /\ runs < MaxRuns
    /\ runs' = runs + 1
    /\ pc' = "connect_db"
    /\ dbcnxn' = "none"
    /\ fern_conn' = "none"
    /\ old_historics' = {}
    /\ df_index' = <<>>
    /\ total_historics' = <<>>
    /\ hist_table' = <<>>
    /\ row' = 0
    /\ df_fern' = NoTable
    /\ timer' = "unset"
    /\ result' = "running"
    /\ dest0' = dest
    /\ ops' = <<>>
    /\ visited' = {}
    /\ synced' = {}
    /\ skipped' = {}
    /\ fetched' = [t \in IndexNames |-> -1]
    /\ raised' = {}
    /\ prevDest' = dest
    /\ prevResult' = IF result \in {"none", "ok"} THEN result ELSE "failed"
    /\ prevSkipped' = IF result = "ok" THEN skipped ELSE {}
    /\ sec' = 0
    /\ time_taken' = <<>>
    /\ UNCHANGED <<storeVars, mainVars>>

\* lines 136-141: dbengine.connect(), SELECT version(), dbcnxn.close()
ConnectDatabase(ok) ==
    /\ pc = "connect_db"
    /\ IF ok
       THEN /\ dbcnxn' = "closed"
            /\ pc' = "connect_fern"
            /\ UNCHANGED <<result, raised>>
       ELSE /\ Raise("connect_db", "-", "ConnectionError")
            /\ UNCHANGED dbcnxn
    /\ UNCHANGED <<storeVars, mainVars, prevVars, timeVars, runs, fern_conn, old_historics,
                   df_index, total_historics, hist_table, row, df_fern, timer,
                   dest0, ops, visited, synced, skipped, fetched>>

\* variant: the failed pyodbc.connect is swallowed and the run goes on
ConnectFernhill_Swallowed(ok) ==
    /\ pc = "connect_fern"
    /\ pc' = "hdi_list"
    /\ fern_conn' = IF ok THEN "open" ELSE "none"
    /\ IF ok THEN UNCHANGED raised ELSE Throw("connect_fern", "-")
    /\ UNCHANGED <<storeVars, mainVars, prevVars, timeVars, runs, dbcnxn, old_historics,
                   df_index, total_historics, hist_table, row, df_fern, timer,
                   result, dest0, ops, visited, synced, skipped, fetched>>

\* lines 144-145: pyodbc.connect(ConnString)
ConnectFernhill(ok) ==
    /\ pc = "connect_fern"
    /\ IF ok
       THEN /\ fern_conn' = "open"
            /\ pc' = "hdi_list"
            /\ UNCHANGED <<result, raised>>
       ELSE /\ Raise("connect_fern", "-", "ConnectionError")
            /\ UNCHANGED fern_conn
    /\ UNCHANGED <<storeVars, mainVars, prevVars, timeVars, runs, dbcnxn, old_historics,
                   df_index, total_historics, hist_table, row, df_fern, timer,
                   dest0, ops, visited, synced, skipped, fetched>>

(* --------------------------- hist_data_index -------------------------- *)
\* lines 48-56: old_historics = the destination's table names
ListOldHistorics(ok) ==
    /\ pc = "hdi_list"
    /\ IF ok
       THEN /\ old_historics' = ListTableNames(dest)
            /\ pc' = "hdi_fetch"
            /\ UNCHANGED <<result, raised>>
       ELSE /\ Raise("list", "-", "DestinationError")
            /\ UNCHANGED old_historics
    /\ UNCHANGED <<storeVars, mainVars, prevVars, timeVars, runs, dbcnxn, fern_conn,
                   df_index, total_historics, hist_table, row, df_fern, timer,
                   dest0, ops, visited, synced, skipped, fetched>>

\* lines 58-59: df_fern = pd.read_sql_query(SELECT ... FROM HistoricDataIndex)
FetchIndex(ok) ==
    /\ pc = "hdi_fetch"
    /\ IF ok
       THEN /\ df_index' = srcIndex
            /\ pc' = "hdi_replace"
            /\ UNCHANGED <<result, raised>>
       ELSE /\ Raise("index_fetch", "-", "IndexFetchError")
            /\ UNCHANGED df_index
    /\ UNCHANGED <<storeVars, mainVars, prevVars, timeVars, runs, dbcnxn, fern_conn,
                   old_historics, total_historics, hist_table, row, df_fern,
                   timer, dest0, ops, visited, synced, skipped, fetched>>

\* variant: the names are taken as the index spells them, without .lower()
LowerNames_AsSpelled(idx) == idx

\* lines 61-63: total_historics = [TableName.lower() for each index row]
LowerNames(idx) == [i \in 1..Len(idx) |-> lower(idx[i])]

\* variant: a failed replace of the mirrored index is swallowed and the
\* drop loop runs with the names fetched
ReplaceIndex_Swallowed(ok) ==
    /\ pc = "hdi_replace"
    /\ ops' = Append(ops, <<"replace", IndexTable>>)
    /\ IF ok
       THEN /\ dest' = to_sql(dest, IndexTable, IndexFrame(df_index))
            /\ UNCHANGED raised
       ELSE /\ dest' \in to_sql_failed(dest, IndexTable, IndexFrame(df_index))
            /\ Throw("index_replace", "-")
    /\ total_historics' = [i \in 1..Len(df_index) |-> lower(df_index[i])]
    /\ pc' = "hdi_drop"
    /\ UNCHANGED <<srcIndex, srcRows, srcChanges, mainVars, prevVars, timeVars, runs, dbcnxn,
                   fern_conn, old_historics, df_index, hist_table, row,
                   df_fern, timer, result, dest0, visited, synced, skipped,
                   fetched>>

\* lines 60-63: df_fern.to_sql('historicdataindex', if_exists='replace'),
\* then the lower-cased name list
ReplaceIndex(ok) ==
    /\ pc = "hdi_replace"
    /\ ops' = Append(ops, <<"replace", IndexTable>>)
    /\ IF ok
       THEN /\ dest' = to_sql(dest, IndexTable, IndexFrame(df_index))
            /\ total_historics' = LowerNames(df_index)
            /\ pc' = "hdi_drop"
            /\ UNCHANGED <<result, raised>>
       ELSE /\ dest' \in to_sql_failed(dest, IndexTable, IndexFrame(df_index))
            /\ Raise("index_replace", "-", "IndexFetchError")
            /\ UNCHANGED total_historics
    /\ UNCHANGED <<srcIndex, srcRows, srcChanges, mainVars, prevVars, timeVars, runs, dbcnxn,
                   fern_conn, old_historics, df_index, hist_table, row,
                   df_fern, timer, dest0, visited, synced, skipped, fetched>>

\* variant: the test without the exemption of the index table
IsStale_NoIndexGuard(entry, total) == entry \notin Range(total)

\* line 65: the test that decides whether a destination table is stale
IsStale(entry, total) == entry \notin Range(total) /\ entry # IndexTable

\* lines 64-67: one iteration of the drop loop, for the next name of
\* old_historics (information_schema returns the names in no given order)
DropStale(entry, ok) ==
    /\ pc = "hdi_drop"
    /\ entry \in old_historics
    /\ old_historics' = old_historics \ {entry}
    /\ IF IsStale(entry, total_historics)
       THEN /\ ops' = Append(ops, <<"drop", entry>>)
            /\ IF ok
               THEN /\ dest' = DropTable(dest, entry)
                    /\ UNCHANGED <<pc, result, raised>>
               ELSE /\ Raise("drop", entry, "DropError")
                    /\ UNCHANGED dest
       ELSE /\ ok
            /\ UNCHANGED <<dest, ops, pc, result, raised>>
    /\ UNCHANGED <<srcIndex, srcRows, srcChanges, mainVars, prevVars, timeVars, runs, dbcnxn,
                   fern_conn, df_index, total_historics, hist_table, row,
                   df_fern, timer, dest0, visited, synced, skipped, fetched>>

\* variant: hist_data_index returns and the timer is not started
FinishIndexCheck_NoTimer ==
    /\ pc = "hdi_drop"
    /\ old_historics = {}
    /\ UNCHANGED timer
    /\ pc' = "hd_names"
    /\ UNCHANGED <<storeVars, mainVars, prevVars, timeVars, runs, dbcnxn, fern_conn,
                   old_historics, df_index, total_historics, hist_table, row,
                   df_fern, result, dest0, ops, visited, synced, skipped,
                   fetched, raised>>

\* line 68 and line 148: the drop loop is over, hist_data_index returns and
\* table_transfer starts its timer
FinishIndexCheck ==
    /\ pc = "hdi_drop"
    /\ old_historics = {}
    /\ timer' = "running"
    /\ pc' = "hd_names"
    /\ UNCHANGED <<storeVars, mainVars, prevVars, timeVars, runs, dbcnxn, fern_conn,
                   old_historics, df_index, total_historics, hist_table, row,
                   df_fern, result, dest0, ops, visited, synced, skipped,
                   fetched, raised>>

(* ------------------------------ hist_data ----------------------------- *)
\* where the for loop of line 90 goes after iteration r
LoopTo(r) == IF r > Len(hist_table) THEN "close" ELSE "hd_fetch"

\* lines 83-89: hist_table = SELECT TableName FROM HistoricDataIndex, asked
\* of the source again
FetchTableNames(ok) ==
    /\ pc = "hd_names"
    /\ IF ok
       THEN /\ hist_table' = srcIndex
            /\ row' = 1
            /\ pc' = IF Len(srcIndex) = 0 THEN "close" ELSE "hd_fetch"
            /\ UNCHANGED <<result, raised>>
       ELSE /\ Raise("names", "-", "SourceError")
            /\ UNCHANGED <<hist_table, row>>
    /\ UNCHANGED <<storeVars, mainVars, prevVars, timeVars, runs, dbcnxn, fern_conn,
                   old_historics, df_index, total_historics, df_fern, timer,
                   dest0, ops, visited, synced, skipped, fetched>>

\* the exception classes that can reach the except clause of line 107: what
\* the source query raises, and what SQLAlchemy raises for the destination
SourceErrors == {"pyodbc.ProgrammingError", "pyodbc.OperationalError",
                 "pandas.errors.DatabaseError"}

DestinationErrorClass == "sqlalchemy.exc.DBAPIError"

\* variant: a bare except, which catches every class
Caught_Any(exc) == TRUE

\* line 107: except pyodbc.ProgrammingError
Caught(exc) == exc = "pyodbc.ProgrammingError"

\* lines 107-108: the except clause logs and the loop goes to the next row
SkipTable(name) ==
    /\ skipped' = skipped \cup {name}
    /\ row' = row + 1
    /\ pc' = LoopTo(row + 1)
    /\ UNCHANGED result

\* lines 92-99: df_fern = pd.read_sql_query(SELECT * FROM hist_table_name)
FetchTable(outcome) ==
    /\ pc = "hd_fetch"
    /\ LET name == hist_table[row] IN
       /\ visited' = visited \cup {name}
       /\ IF outcome = "ok"
          THEN /\ df_fern' = SourceFrame(name, srcRows[name])
               /\ fetched' = [fetched EXCEPT ![name] = srcRows[name]]
               /\ pc' = "hd_load"
               /\ UNCHANGED <<row, skipped, result, raised>>
          ELSE /\ UNCHANGED <<df_fern, fetched>>
               /\ IF Caught(outcome)
                  THEN Throw("fetch", name) /\ SkipTable(name)
                  ELSE /\ Raise("fetch", name, "SourceError")
                       /\ UNCHANGED <<row, skipped>>
    /\ UNCHANGED <<storeVars, mainVars, prevVars, timeVars, runs, dbcnxn, fern_conn,
                   old_historics, df_index, total_historics, hist_table,
                   timer, dest0, ops, synced>>

\* line 102: the name of the table hist_data loads the frame into
LoadTarget(name) == StagingTable

\* lines 100-102: df_fern.to_sql('temptable', if_exists='replace')
LoadTable(ok) ==
    /\ pc = "hd_load"
    /\ LET name == hist_table[row]
           target == LoadTarget(name) IN
       /\ ops' = Append(ops, <<"replace", target>>)
       /\ IF ok
          THEN /\ dest' = to_sql(dest, target, df_fern)
               /\ pc' = "hd_alter"
               /\ UNCHANGED <<row, skipped, result, raised>>
          ELSE /\ dest' \in to_sql_failed(dest, target, df_fern)
               /\ IF Caught(DestinationErrorClass)
                  THEN Throw("load", name) /\ SkipTable(name)
                  ELSE /\ Raise("load", name, "DestinationError")
                       /\ UNCHANGED <<row, skipped>>
    /\ UNCHANGED <<srcIndex, srcRows, srcChanges, mainVars, prevVars, timeVars, runs, dbcnxn,
                   fern_conn, old_historics, df_index, total_historics,
                   hist_table, df_fern, timer, dest0, visited, synced,
                   fetched>>

\* lines 103-106: ALTER TABLE temptable ADD COLUMN entryid SERIAL PRIMARY KEY,
\* end of the try block, next iteration
AddEntryId(ok) ==
    /\ pc = "hd_alter"
    /\ LET name == hist_table[row]
           target == LoadTarget(name) IN
       /\ ops' = Append(ops, <<"alter", target>>)
       /\ IF ok
          THEN /\ dest' = [dest EXCEPT ![target] = AddSerial(dest[target])]
               /\ synced' = synced \cup {name}
               /\ row' = row + 1
               /\ pc' = LoopTo(row + 1)
               /\ UNCHANGED <<skipped, result, raised>>
          ELSE /\ UNCHANGED <<dest, synced>>
               /\ IF Caught(DestinationErrorClass)
                  THEN Throw("alter", name) /\ SkipTable(name)
                  ELSE /\ Raise("alter", name, "DestinationError")
                       /\ UNCHANGED <<row, skipped>>
    /\ UNCHANGED <<srcIndex, srcRows, srcChanges, mainVars, prevVars, timeVars, runs, dbcnxn,
                   fern_conn, old_historics, df_index, total_historics,
                   hist_table, df_fern, timer, dest0, visited, fetched>>

(* ---------------------------- convert_time ---------------------------- *)
\* Python's divmod on whole numbers (a float holds them exactly below 2^53)
divmod(a, b) == <<a \div b, a % b>>

\* the character of one decimal digit
Digit(d) == SubSeq(<<"0", "1", "2", "3", "4", "5", "6", "7", "8", "9">>,
                   d + 1, d + 1)[1]

\* "%d": the decimal digits of n, as a sequence of characters
RECURSIVE Decimal(_)
Decimal(n) ==
    IF n < 10 THEN <<Digit(n)>>
    ELSE Append(Decimal(n \div 10), Digit(n % 10))

\* variant: "%d" where the code has "%02d"
Pad2_Unpadded(n) == Decimal(n)

\* "%02d": at least two digits, padded with a zero
Pad2(n) == IF n < 10 THEN <<"0">> \o Decimal(n) ELSE Decimal(n)

\* lines 28-31: "%d:%02d:%02d" % (hour, min, flSec)
convert_time(s) ==
    LET ms == divmod(s, 60)
        hm == divmod(ms[1], 60)
    IN Decimal(hm[1]) \o <<":">> \o Pad2(hm[2]) \o <<":">> \o Pad2(ms[2])

\* the whole seconds a run of the model may take (end - start, line 151)
Elapsed == {1, 3725}

\* lines 150-154: stop the timer, convert_time, fern_conn.close(), return
CloseAndReturn ==
    /\ pc = "close"
    /\ timer' = "stopped"
    /\ \E e \in Elapsed :
          /\ sec' = e
          /\ time_taken' = convert_time(e)
    /\ fern_conn' = "closed"
    /\ pc' = "done"
    /\ result' = "ok"
    /\ UNCHANGED <<storeVars, mainVars, prevVars, runs, dbcnxn, old_historics,
                   df_index, total_historics, hist_table, row, df_fern,
                   dest0, ops, visited, synced, skipped, fetched, raised>>

(* --------------------------- specification ---------------------------- *)
\* the destination before the first run: any subset of the names, holding
\* what earlier runs or other users left there
InitialDest(present) ==
    [n \in DestNames |->
        IF n \notin present THEN NoTable
        ELSE IF n = IndexTable THEN OldIndexTable
        ELSE OldTable]

\* main() before its loop is entered (lines 306-318)
MainIdle ==
    /\ updating = FALSE
    /\ in_tray = FALSE
    /\ event = "none"
    /\ loop = "window"
    /\ clock = 0
    /\ right_now = -1
    /\ day = 0
    /\ active = 0
    /\ queued = 0
    /\ schedStarts = 0

InitRun ==
    /\ srcIndex \in IndexSeqs
    /\ srcRows \in { [t \in IndexNames |-> IF t = "tempA" THEN n ELSE 1] :
                      n \in 0..MaxRows }
    /\ srcChanges = 0
    /\ dest \in { InitialDest(p) : p \in SUBSET DestNames }
    /\ pc = "idle"
    /\ runs = 0
    /\ dbcnxn = "none"
    /\ fern_conn = "none"
    /\ old_historics = {}
    /\ df_index = <<>>
    /\ total_historics = <<>>
    /\ hist_table = <<>>
    /\ row = 0
    /\ df_fern = NoTable
    /\ timer = "unset"
    /\ result = "none"
    /\ dest0 = dest
    /\ ops = <<>>
    /\ visited = {}
    /\ synced = {}
    /\ skipped = {}
    /\ fetched = [t \in IndexNames |-> -1]
    /\ raised = {}
    /\ prevDest = dest
    /\ prevResult = "none"
    /\ prevSkipped = {}
    /\ sec = 0
    /\ time_taken = <<>>
    /\ autoupdate = TRUE
    /\ MainIdle

NextRun ==
    \/ StartRun
    \/ \E ok \in BOOLEAN : ConnectDatabase(ok)
    \/ \E ok \in BOOLEAN : ConnectFernhill(ok)
    \/ \E ok \in BOOLEAN : ListOldHistorics(ok)
    \/ \E ok \in BOOLEAN : FetchIndex(ok)
    \/ \E ok \in BOOLEAN : ReplaceIndex(ok)
    \/ \E e \in DestNames, ok \in BOOLEAN : DropStale(e, ok)
    \/ FinishIndexCheck
    \/ \E ok \in BOOLEAN : FetchTableNames(ok)
    \/ \E o \in {"ok"} \cup SourceErrors : FetchTable(o)
    \/ \E ok \in BOOLEAN : LoadTable(ok)
    \/ \E ok \in BOOLEAN : AddEntryId(ok)
    \/ CloseAndReturn
    \/ \E idx \in IndexSeqs : SourceIndexChanges(idx)

SpecRun == InitRun /\ [][NextRun]_vars

(* ------------------------------- main() ------------------------------- *)
\* lines 315-318: the two daily windows, in seconds since midnight
First == 21600

FirstStart == 21660

Second == 64800

SecondStart == 64860

\* the instants of a day at which the model looks at the clock
TimePoints == {0, First, First + 1, First + 30, FirstStart,
               Second, Second + 1, Second + 30, SecondStart}

\* lines 325/330 (366/372): right_now lies strictly inside a window;
\* 1 for the morning window, 2 for the evening window, 0 outside
WindowOf(now) ==
    IF now > First /\ now < FirstStart THEN 1
    ELSE IF now > Second /\ now < SecondStart THEN 2
    ELSE 0

\* variant: the windows are tested without looking at values["-AU1-"]
ScheduledDue_Ungated(au, now, upd) == WindowOf(now) # 0 /\ ~upd

\* lines 323-334 (365-377): the scheduled trigger fires in this iteration
ScheduledDue(au, now, upd) == au /\ WindowOf(now) # 0 /\ ~upd

\* line 340: the manual trigger fires in this iteration
ManualDue(ev, upd) == ev = "Start Update"

\* threads started whose '-UPDATE COMPLETE-' has not been read
Outstanding == active + queued

\* what the window loop can read: timeout, the buttons, the thread's event,
\* the window's close box
WindowEvents == {"__TIMEOUT__", "Submit", "Start Update", "-UPDATE COMPLETE-",
                 "Minimize to System Tray", "WIN_CLOSED"}

\* what the tray loop can read (the window is hidden): timeout, the thread's
\* event, the tray menu and the double click
TrayEvents == {"__TIMEOUT__", "-UPDATE COMPLETE-", "Show Window",
               "__DOUBLE_CLICKED__", "Exit"}

\* lines 320-348 and 389-390: one iteration of the window loop that read ev
WindowLoop(ev) ==
    /\ loop = "window"
    /\ ev \in WindowEvents \ {"WIN_CLOSED"}
    /\ ev = "-UPDATE COMPLETE-" => queued > 0
    /\ LET sched == ScheduledDue(autoupdate, clock, updating)
           manual == ManualDue(ev, IF sched THEN TRUE ELSE updating)
           n == (IF sched THEN 1 ELSE 0) + (IF manual THEN 1 ELSE 0)
       IN /\ Outstanding + n <= MaxThreads
          /\ sched => schedStarts < MaxSchedStarts
          /\ active' = active + n
          /\ schedStarts' = IF sched THEN schedStarts + 1 ELSE schedStarts
          /\ updating' = IF ev = "Start Update" THEN (manual \/ sched \/ updating)
                         ELSE IF ev = "-UPDATE COMPLETE-" THEN FALSE
                         ELSE (sched \/ updating)
    /\ queued' = IF ev = "-UPDATE COMPLETE-" THEN queued - 1 ELSE queued
    /\ event' = ev
    /\ in_tray' = (ev = "Minimize to System Tray")
    /\ loop' = IF ev = "Minimize to System Tray" THEN "tray"
               ELSE IF ev = "Exit" THEN "exited"
               ELSE "window"
    /\ right_now' = IF autoupdate THEN clock ELSE right_now
    /\ UNCHANGED <<autoupdate, clock, day, storeVars, runVars, prevVars, timeVars>>

\* lines 321-323: the window was closed, read() returns (None, None) and
\* values["-AU1-"] raises: main() ends with the exception
WindowClosed ==
    /\ loop = "window"
    /\ event' = "WIN_CLOSED"
    /\ loop' = "crashed"
    /\ UNCHANGED <<right_now, updating, in_tray, autoupdate, clock, day, active, queued,
                   schedStarts, storeVars, runVars, prevVars, timeVars>>

\* lines 358-387: one iteration of the tray loop that read ev
TrayLoop(ev) ==
    /\ loop = "tray"
    /\ ev \in TrayEvents
    /\ ev = "-UPDATE COMPLETE-" => queued > 0
    /\ LET sched == ScheduledDue(autoupdate, clock, updating)
           n == IF sched THEN 1 ELSE 0
       IN /\ Outstanding + n <= MaxThreads
          /\ sched => schedStarts < MaxSchedStarts
          /\ active' = active + n
          /\ schedStarts' = schedStarts + n
          /\ updating' = IF ev = "-UPDATE COMPLETE-" THEN FALSE
                         ELSE (sched \/ updating)
    /\ queued' = IF ev = "-UPDATE COMPLETE-" THEN queued - 1 ELSE queued
    /\ event' = ev
    /\ in_tray' = (ev \notin {"Show Window", "__DOUBLE_CLICKED__"})
    /\ loop' = IF in_tray' THEN "tray" ELSE "window"
    /\ right_now' = clock
    /\ UNCHANGED <<autoupdate, clock, day, storeVars, runVars, prevVars, timeVars>>

\* perform_long_operation's thread: table_transfer returned, the thread
\* writes '-UPDATE COMPLETE-' to the window
ThreadReturns ==
    /\ active > 0
    /\ active' = active - 1
    /\ queued' = queued + 1
    /\ UNCHANGED <<right_now, updating, in_tray, autoupdate, event, loop, clock, day,
                   schedStarts, storeVars, runVars, prevVars, timeVars>>

\* perform_long_operation's thread: table_transfer raised, the thread dies
\* and writes no event
ThreadRaises ==
    /\ active > 0
    /\ active' = active - 1
    /\ UNCHANGED <<right_now, updating, in_tray, autoupdate, event, loop, clock, day,
                   queued, schedStarts, storeVars, runVars, prevVars, timeVars>>

\* the user flips the 'Automatically Update?' radio of the settings tab
SetAutoUpdate(b) ==
    /\ loop = "window"
    /\ b # autoupdate
    /\ autoupdate' = b
    /\ UNCHANGED <<right_now, updating, in_tray, event, loop, clock, day, active, queued,
                   schedStarts, storeVars, runVars, prevVars, timeVars>>

\* time passes within the day; the count of scheduled starts is per window
Tick(t) ==
    /\ loop \in {"window", "tray"}
    /\ t \in TimePoints
    /\ t > clock
    /\ clock' = t
    /\ schedStarts' = IF WindowOf(t) = WindowOf(clock) THEN schedStarts ELSE 0
    /\ UNCHANGED <<right_now, updating, in_tray, autoupdate, event, loop, day, active,
                   queued, storeVars, runVars, prevVars, timeVars>>

\* midnight
NextDay ==
    /\ loop \in {"window", "tray"}
    /\ day < MaxDays
    /\ day' = day + 1
    /\ clock' = 0
    /\ schedStarts' = 0
    /\ UNCHANGED <<right_now, updating, in_tray, autoupdate, event, loop, active, queued,
                   storeVars, runVars, prevVars, timeVars>>

InitMain ==
    /\ srcIndex = <<>>
    /\ srcRows = [t \in IndexNames |-> 0]
    /\ srcChanges = 0
    /\ dest = InitialDest({})
    /\ pc = "idle"
    /\ runs = 0
    /\ dbcnxn = "none"
    /\ fern_conn = "none"
    /\ old_historics = {}
    /\ df_index = <<>>
    /\ total_historics = <<>>
    /\ hist_table = <<>>
    /\ row = 0
    /\ df_fern = NoTable
    /\ timer = "unset"
    /\ result = "none"
    /\ dest0 = dest
    /\ ops = <<>>
    /\ visited = {}
    /\ synced = {}
    /\ skipped = {}
    /\ fetched = [t \in IndexNames |-> -1]
    /\ raised = {}
    /\ prevDest = dest
    /\ prevResult = "none"
    /\ prevSkipped = {}
    /\ sec = 0
    /\ time_taken = <<>>
    /\ autoupdate \in BOOLEAN
    /\ MainIdle

NextMain ==
    \/ \E ev \in WindowEvents : WindowLoop(ev)
    \/ WindowClosed
    \/ \E ev \in TrayEvents : TrayLoop(ev)
    \/ ThreadReturns
    \/ ThreadRaises
    \/ \E b \in BOOLEAN : SetAutoUpdate(b)
    \/ \E t \in TimePoints : Tick(t)
    \/ NextDay

SpecMain == InitMain /\ [][NextMain]_vars

(* ------------------------ convert_time on its own --------------------- *)
\* convert_time is called with any whole number of seconds
InitTime ==
    /\ srcIndex = <<>>
    /\ srcRows = [t \in IndexNames |-> 0]
    /\ srcChanges = 0
    /\ dest = InitialDest({})
    /\ pc = "idle"
    /\ runs = 0
    /\ dbcnxn = "none"
    /\ fern_conn = "none"
    /\ old_historics = {}
    /\ df_index = <<>>
    /\ total_historics = <<>>
    /\ hist_table = <<>>
    /\ row = 0
    /\ df_fern = NoTable
    /\ timer = "unset"
    /\ result = "none"
    /\ dest0 = dest
    /\ ops = <<>>
    /\ visited = {}
    /\ synced = {}
    /\ skipped = {}
    /\ fetched = [t \in IndexNames |-> -1]
    /\ raised = {}
    /\ prevDest = dest
    /\ prevResult = "none"
    /\ prevSkipped = {}
    /\ autoupdate = TRUE
    /\ MainIdle
    /\ sec \in 0..MaxSeconds
    /\ time_taken = <<>>

\* line 152: time_taken = convert_time(time_taken)
ConvertTime ==
    /\ time_taken = <<>>
    /\ time_taken' = convert_time(sec)
    /\ UNCHANGED <<sec, storeVars, runVars, mainVars, prevVars>>

NextTime == ConvertTime

SpecTime == InitTime /\ [][NextTime]_vars

(* ------------------- properties of one run (SpecRun) ------------------ *)
\* the run has ended: table_transfer returned or an exception left it
RunEnded == pc = "done"

\* sites of the exceptions raised so far in the run
RaisedAt(sites) == { e \in raised : e[1] \in sites }

\* C1: after a run, every table T that was synced successfully exists in the
\* destination under its own name, with the rows the source returned for it,
\* the source columns plus entryid, entryid = 1..n
C1_SyncedTablesHeld ==
    RunEnded =>
        \A t \in synced :
            dest[lower(t)] = AddSerial(SourceFrame(t, fetched[t]))

\* C2: when hist_data_index has completed, the destination tables are those
\* that were there before and are named in the fetched index (names compared
\* without case), plus historicdataindex
C2_ReconciledSet ==
    pc = "hd_names" =>
        ListTableNames(dest) =
            (ListTableNames(dest0) \cap { lower(n) : n \in Range(df_index) })
                \cup {IndexTable}

\* C2 witness: reconciliation completed with a table kept through a name the
\* index spells in mixed case, a stale table dropped and the index table added
C2_Witness ==
    /\ pc = "hd_names"
    /\ "tempA" \in Range(df_index)
    /\ dest0["tempa"] # NoTable /\ dest["tempa"] # NoTable
    /\ dest0["tempc"] # NoTable /\ dest["tempc"] = NoTable
    /\ dest0[IndexTable] = NoTable /\ dest[IndexTable] # NoTable

\* C5: if the fetch of a table T raised, the run still ended normally, T was
\* marked failed and every table of the index was processed
C5_FetchErrorSkipsTable ==
    RunEnded =>
        \A e \in RaisedAt({"fetch"}) :
            /\ result = "ok"
            /\ e[2] \in skipped
            /\ visited = Range(hist_table)

\* C6: if a connection could not be opened, the run ended at once with a
\* connection error, no table processed and the destination untouched
C6_ConnectionFailureTouchesNothing ==
    RaisedAt({"connect_db", "connect_fern"}) # {} =>
        /\ RunEnded
        /\ result = "ConnectionError"
        /\ visited = {}
        /\ ops = <<>>
        /\ dest = dest0

\* C6 witness: the source connection failed, over a destination with tables
C6_Witness ==
    /\ RunEnded
    /\ <<"connect_fern", "-">> \in raised
    /\ dbcnxn = "closed"
    /\ ListTableNames(dest) # {}

\* C7: if reading the source index or replacing historicdataindex failed, the
\* run ended there: no table transfer began, no table was dropped, and no
\* table other than historicdataindex was changed
C7_IndexFailureAbortsBeforeTransfer ==
    RaisedAt({"index_fetch", "index_replace"}) # {} =>
        /\ RunEnded
        /\ result = "IndexFetchError"
        /\ visited = {}
        /\ hist_table = <<>>
        /\ \A i \in 1..Len(ops) : ops[i] = <<"replace", IndexTable>>
        /\ \A n \in DestNames \ {IndexTable} : dest[n] = dest0[n]

\* C7 witness: replacing the index failed while a stale table was there to
\* drop, and it is still there
C7_Witness ==
    /\ RunEnded
    /\ <<"index_replace", "-">> \in raised
    /\ df_index # <<>>
    /\ \E n \in ListTableNames(dest) :
          IsStale(n, [i \in 1..Len(df_index) |-> lower(df_index[i])])

\* C8: a DROP TABLE that failed for one stale table did not end the run: the
\* other stale tables were dropped and the table transfers were entered
C8_DropFailureNonFatal ==
    (RunEnded /\ RaisedAt({"drop"}) # {}) =>
        /\ result # "DropError"
        /\ timer # "unset"
        /\ \A n \in ListTableNames(dest0) :
              (IsStale(n, total_historics) /\ <<"drop", n>> \notin raised)
                  => dest[n] = NoTable

C10_ConnectionsClosed ==
    RunEnded => (dbcnxn # "open" /\ fern_conn # "open")

\* a table without its entryid column
NonKeyColumns(tbl) ==
    IF tbl = NoTable \/ tbl.cols = <<>> \/ tbl.cols[Len(tbl.cols)] # "entryid"
    THEN tbl
    ELSE [cols |-> SubSeq(tbl.cols, 1, Len(tbl.cols) - 1),
          rows |-> [i \in 1..Len(tbl.rows) |->
                      SubSeq(tbl.rows[i], 1, Len(tbl.rows[i]) - 1)]]

\* the destination as seen without the entryid columns
NonKeyView(d) == [n \in DOMAIN d |-> NonKeyColumns(d[n])]

\* two runs in succession over a source that did not change and answered the
\* same way: both returned normally, with the same tables skipped
RepeatedRun ==
    /\ RunEnded
    /\ runs >= 2
    /\ srcChanges = 0
    /\ result = "ok" /\ prevResult = "ok"
    /\ skipped = prevSkipped

\* C11: after the second of two runs over an unchanged source the destination
\* has the same tables, with the same values outside entryid, as after the
\* first
C11_Idempotent ==
    RepeatedRun => NonKeyView(dest) = NonKeyView(prevDest)

\* C11 witness: a second run over an unchanged index of two tables, both
\* synced in both runs, the staging table holding rows
C11_Witness ==
    /\ RepeatedRun
    /\ Len(hist_table) = 2
    /\ synced = Range(hist_table)
    /\ dest[StagingTable] # NoTable
    /\ dest[StagingTable].rows # <<>>

\* C12: after reconciliation historicdataindex holds exactly the entries the
\* index fetch returned, whatever it held before
C12_IndexMirrored ==
    pc = "hd_names" =>
        /\ dest[IndexTable] # NoTable
        /\ Len(dest[IndexTable].rows) = Len(df_index)
        /\ \A i \in 1..Len(df_index) :
              dest[IndexTable].rows[i] = IndexFrame(df_index).rows[i]

\* C12 witness: reconciliation over a mirrored index that held a stale entry,
\* with two entries fetched
C12_Witness ==
    /\ pc = "hd_names"
    /\ dest0[IndexTable] = OldIndexTable
    /\ Len(df_index) = 2

\* C13: the tables a run transfers are exactly the tables of the index that
\* its reconciliation fetched
C13_TransferUsesReconciledIndex ==
    (RunEnded /\ result = "ok") => visited = Range(df_index)

\* positions of table_transfer before, inside and after hist_data_index
BeforeTransfer == {"connect_db", "connect_fern", "hdi_list", "hdi_fetch",
                   "hdi_replace", "hdi_drop"}

InTransfer == {"hd_names", "hd_fetch", "hd_load", "hd_alter", "close"}

C3_SingleRunActive == active <= 1

\* C4: the scheduled trigger starts at most one run in one daily window
C4_OneScheduledRunPerWindow == schedStarts <= 1

\* C15: while auto-update is disabled, an iteration of the window loop or of
\* the tray loop starts a run only for the manual request 'Start Update',
\* and then exactly one
C15_ScheduledRunsGated ==
    [][ (~autoupdate /\ active' > active) =>
            /\ loop = "window"
            /\ event' = "Start Update"
            /\ active' = active + 1
            /\ schedStarts' = schedStarts ]_vars

\* C15 witness: an iteration of the tray loop read the clock inside a window
\* with auto-update disabled and no run in progress, and started nothing
C15_Witness ==
    /\ loop = "tray"
    /\ ~autoupdate
    /\ WindowOf(right_now) # 0
    /\ event = "__TIMEOUT__"
    /\ ~updating
    /\ active = 0 /\ queued = 0

\* C16: a run that has ended has returned the trigger layer to idle: once no
\* thread is inside table_transfer and no '-UPDATE COMPLETE-' is waiting to
\* be read, updating is False
C16_FlagResetAfterRun ==
    (active = 0 /\ queued = 0) => ~updating

\* C17: updating is True whenever a run of table_transfer is active
C17_FlagCoversActiveRuns ==
    active > 0 => updating

\* C18: once the tray menu's 'Exit' has been read, main() has left its loops
C18_TrayExitLeavesLoop ==
    event = "Exit" => loop = "exited"

(* ---------------- properties of convert_time (SpecTime) --------------- *)
\* the number a character of Digit stands for
DigitValue(c) == CHOOSE d \in 0..9 : Digit(d) = c

\* the number a sequence of digit characters reads as
RECURSIVE Number(_)
Number(cs) ==
    IF cs = <<>> THEN 0
    ELSE 10 * Number(SubSeq(cs, 1, Len(cs) - 1)) + DigitValue(cs[Len(cs)])

\* the characters that are decimal digits
IsDigits(cs) == \A i \in 1..Len(cs) : \E d \in 0..9 : cs[i] = Digit(d)

\* C19: convert_time(s) reads H:MM:SS with H = s div 3600 unpadded,
\* MM = (s mod 3600) div 60 and SS = s mod 60 in two digits each, and
\* H*3600 + MM*60 + SS = s
C19_ConvertTime ==
    time_taken # <<>> =>
        LET n == Len(time_taken)
            hh == SubSeq(time_taken, 1, n - 6)
            mm == SubSeq(time_taken, n - 4, n - 3)
            ss == SubSeq(time_taken, n - 1, n)
        IN /\ n >= 7
           /\ time_taken[n - 5] = ":" /\ time_taken[n - 2] = ":"
           /\ IsDigits(hh) /\ IsDigits(mm) /\ IsDigits(ss)
           /\ Number(hh) = sec \div 3600
           /\ (Len(hh) = 1 \/ hh[1] # "0")
           /\ Number(mm) = (sec % 3600) \div 60
           /\ Number(ss) = sec % 60
           /\ Number(hh) * 3600 + Number(mm) * 60 + Number(ss) = sec

\* C19 witness: convert_time was applied to ten hours, one minute and one
\* second
C19_Witness ==
    /\ sec = 36061
    /\ time_taken = <<"1", "0", ":", "0", "1", ":", "0", "1">>

====
